---- MODULE Spec2Model ----
(***************************************************************************)
(* Model of the in-memory todo store of src/main.rs: a Vec<Todo> behind    *)
(* one parking_lot::Mutex, shared by concurrently running GraphQL          *)
(* resolvers (todos, todo, create_todo, toggle_todo, delete_todo).         *)
(*                                                                         *)
(* Every resolver is split at the points where other handlers can run:     *)
(* before store.lock(), inside the critical section (one step per          *)
(* statement executed under the guard), and after the guard is dropped.    *)
(*                                                                         *)
(* Uuid::new_v4() is modelled as the uuid crate documents it: a value that *)
(* has not been handed out before (the set `issued` records the values     *)
(* already generated).  The code itself performs no collision check.       *)
(***************************************************************************)
EXTENDS Integers, Sequences, FiniteSets, TLC

\* ---------------------------------------------------------------- bounds
NumProcs == 2
MaxCalls == 3
LiveCalls == 2
NumIds   == 3

Procs  == 1..NumProcs
NoProc == 0

\* the id space: what Uuid::new_v4().to_string() can yield, and what a
\* caller can pass as `id`
Ids    == 1..NumIds
\* the titles a caller passes to create_todo: a non-empty one and the empty
\* string (a second create_todo with either repeats an existing title)
Titles == {"Eggs", ""}

VARIABLES
    store,      \* Arc<Mutex<Vec<Todo>>>: the protected Vec<Todo>
    lock,       \* the Mutex: NoProc when free, else the holder
    pc,         \* position of each handler
    op,         \* resolver a handler is running
    id,         \* its parameter `id` (0 when it has none)
    title,      \* its parameter `title` ("-" when it has none)
    todo,       \* create_todo: local `todo`
    orig_len,   \* delete_todo: local `orig_len`
    val,        \* value computed by the resolver body
    ret,        \* value handed back to the executor
    issued,     \* ids Uuid::new_v4 has produced so far
    calls,      \* number of resolver calls started
    \* ---- history (ghost) variables, read by the properties only
    snap,       \* the store when the current holder took the lock
    prev,       \* <<record>> of the last completed critical section, with
                \* the handlers that were blocked in lock() when it ended
    stored,     \* ids of the tasks ever put in the store (seed included)
    created,    \* ids of the seed and of the tasks create_todo returned
    deleted,    \* ids for which delete_todo returned true
    toggles,    \* id -> number of toggle_todo calls that found the task
    ncreate,    \* create_todo calls that returned Ok
    ndelete,    \* delete_todo calls that returned Ok(true)
    deltrue,    \* id -> number of delete_todo(id) calls that returned true
    order,      \* ids in the order their tasks were put in the store
    seqstore    \* the Vec of the one-call-at-a-time execution (see SeqApply)

vars == <<store, lock, pc, op, id, title, todo, orig_len, val, ret, issued, calls,
          snap, prev, stored, created, deleted, toggles, ncreate, ndelete, deltrue,
          order, seqstore>>

\* ------------------------------------------------------------ data types
\* struct Todo { id, title, completed }
Todo(i, ttl, c) == [id |-> i, title |-> ttl, completed |-> c]

\* Option<T>
None    == [some |-> FALSE]
Some(t) == [some |-> TRUE, v |-> t]

\* Vec<Todo> as a returned value
List(s) == [list |-> s]

\* FieldResult<T>: Ok(v); no resolver constructs an Err
Ok(v) == [ok |-> TRUE, v |-> v]

NoId    == 0
NoTitle == "-"
NoTodo  == Todo(NoId, NoTitle, FALSE)
NoVal   == [unset |-> TRUE]

\* ------------------------------------------------- operations on the Vec
\* variant: a hand-written Clone that forgets the title
CloneTodo_DropTitle(t) == Todo(t.id, "", t.completed)

\* #[derive(Clone)] on Todo: a field-by-field copy
CloneTodo(t) == Todo(t.id, t.title, t.completed)

\* variant: only the first element is copied
CloneVec_Truncated(s) == SubSeq(s, 1, 1)

\* Vec<Todo>::clone(): element-by-element copy, same order
CloneVec(s) == [i \in 1..Len(s) |-> CloneTodo(s[i])]

\* variant: takes the first element whatever its id (iter().next())
FindIndex_First(s, i) == IF Len(s) > 0 THEN 1 ELSE 0

\* position of the first element whose id is i (0 when there is none):
\* iter().find(|t| t.id == id) and iter_mut().find(|t| t.id == id)
FindIndex(s, i) ==
    IF \E k \in 1..Len(s) : s[k].id = i
    THEN CHOOSE k \in 1..Len(s) :
            /\ s[k].id = i
            /\ \A j \in 1..(k - 1) : s[j].id # i
    ELSE 0

\* store.iter().find(|t| t.id == id).cloned()
Find(s, i) ==
    IF FindIndex(s, i) = 0 THEN None ELSE Some(CloneTodo(s[FindIndex(s, i)]))

\* variant: t.completed = true
Flip_SetTrue(t) == [t EXCEPT !.completed = TRUE]

\* t.completed = !t.completed
Flip(t) == [t EXCEPT !.completed = ~t.completed]

\* variant: the flip is applied to every task once a match exists
ToggleVec_All(s, i) ==
    IF FindIndex(s, i) = 0 THEN s
    ELSE [k \in 1..Len(s) |-> Flip(s[k])]

\* the Vec after toggle_todo's if-let body ran on the first match
ToggleVec(s, i) ==
    IF FindIndex(s, i) = 0 THEN s
    ELSE [s EXCEPT ![FindIndex(s, i)] = Flip(s[FindIndex(s, i)])]

\* variant: only the first match is removed (position + remove)
Retain_FirstOnly(s, i) ==
    IF FindIndex(s, i) = 0 THEN s
    ELSE SubSeq(s, 1, FindIndex(s, i) - 1)
            \o SubSeq(s, FindIndex(s, i) + 1, Len(s))

\* variant: store.retain(|t| t.id == id)
Retain_Eq(s, i) == SelectSeq(s, LAMBDA t : t.id = i)

\* store.retain(|t| t.id != id)
Retain(s, i) == SelectSeq(s, LAMBDA t : t.id # i)

\* variant: store.len() == orig_len
LenChanged_Eq(s, n) == Len(s) = n

\* store.len() != orig_len
LenChanged(s, n) == Len(s) # n

\* variant: the push is left out
Push_Lost(s, t) == s

\* variant: store.insert(0, t)
Push_Front(s, t) == <<t>> \o s

\* store.push(t)
Push(s, t) == Append(s, t)

\* variant: every task gets the same id (Uuid::nil())
NewTodo_FixedId(i, ttl) == Todo(1, ttl, FALSE)

\* variant: completed: true
NewTodo_Done(i, ttl) == Todo(i, ttl, TRUE)

\* Todo { id: Uuid::new_v4().to_string(), title, completed: false }
NewTodo(i, ttl) == Todo(i, ttl, FALSE)

\* variant: an id allocator that hands out any id not in use right now
NewV4_Reuse == Ids \ {store[k].id : k \in 1..Len(store)}

\* the values Uuid::new_v4() can return now
NewV4 == Ids \ issued

\* variant: lock() never waits
CanLock_Always == TRUE

\* Mutex::lock() returns only when no guard is alive
CanLock == lock = NoProc

\* ------------------------------- the resolvers as functions of the Vec
\* each resolver run alone, start to end, on the Vec s: the Vec it leaves
\* and the value it returns
SeqTodos(s) == [store |-> s, val |-> List(s)]

SeqTodo(s, i) ==
    [store |-> s,
     val   |-> IF \E k \in 1..Len(s) : s[k].id = i
               THEN Some(s[CHOOSE k \in 1..Len(s) :
                              s[k].id = i /\ \A j \in 1..Len(s) :
                                              s[j].id = i => k <= j])
               ELSE None]

SeqCreateTodo(s, t) == [store |-> s \o <<t>>, val |-> Ok(t)]

SeqToggleTodo(s, i) ==
    IF \A k \in 1..Len(s) : s[k].id # i
    THEN [store |-> s, val |-> Ok(None)]
    ELSE LET k == CHOOSE k \in 1..Len(s) :
                     s[k].id = i /\ \A j \in 1..Len(s) : s[j].id = i => k <= j
             t == Todo(s[k].id, s[k].title, ~s[k].completed)
         IN  [store |-> [j \in 1..Len(s) |-> IF j = k THEN t ELSE s[j]],
              val   |-> Ok(Some(t))]

SeqDeleteTodo(s, i) ==
    [store |-> SelectSeq(s, LAMBDA t : t.id # i),
     val   |-> Ok(\E k \in 1..Len(s) : s[k].id = i)]

\* resolver o with argument id i (or, for create_todo, the task t it built)
SeqApply(o, i, t, s) ==
    CASE o = "todos"       -> SeqTodos(s)
      [] o = "todo"        -> SeqTodo(s, i)
      [] o = "create_todo" -> SeqCreateTodo(s, t)
      [] o = "toggle_todo" -> SeqToggleTodo(s, i)
      [] o = "delete_todo" -> SeqDeleteTodo(s, i)

\* first statement executed under the guard, per resolver
FirstStep(o) ==
    CASE o = "todos"       -> "todos_clone"
      [] o = "todo"        -> "todo_find"
      [] o = "create_todo" -> "create_push"
      [] o = "toggle_todo" -> "toggle_find"
      [] o = "delete_todo" -> "delete_len"

\* pcs at which a handler owns a MutexGuard
Holding == {"todos_clone", "todo_find", "create_push", "toggle_find",
            "delete_len", "delete_retain", "delete_cmp", "unlock"}

\* ------------------------------------------------------------------ Init
\* main(): the store starts with one seeded task with a random id
Init ==
    \E seed \in Ids :
        /\ store    = <<Todo(seed, "Buy milk", FALSE)>>
        /\ lock     = NoProc
        /\ pc       = [p \in Procs |-> "idle"]
        /\ op       = [p \in Procs |-> "none"]
        /\ id       = [p \in Procs |-> NoId]
        /\ title    = [p \in Procs |-> NoTitle]
        /\ todo     = [p \in Procs |-> NoTodo]
        /\ orig_len = [p \in Procs |-> 0]
        /\ val      = [p \in Procs |-> NoVal]
        /\ ret      = [p \in Procs |-> NoVal]
        /\ issued   = {seed}
        /\ calls    = 0
        /\ snap     = <<>>
        /\ prev     = <<>>
        /\ stored   = {seed}
        /\ created  = {seed}
        /\ deleted  = {}
        /\ toggles  = [i \in Ids |-> 0]
        /\ ncreate  = 0
        /\ ndelete  = 0
        /\ deltrue  = [i \in Ids |-> 0]
        /\ order    = <<seed>>
        /\ seqstore = <<Todo(seed, "Buy milk", FALSE)>>

ghost  == <<snap, prev, stored, created, deleted, toggles, ncreate, ndelete, deltrue,
            order, seqstore>>
locals == <<todo, orig_len, val, ret>>

\* ------------------------------------------------- entering a resolver
\* the executor calls a resolver with its arguments
Enter(p, o, i, ttl) ==
    /\ pc[p] = "idle"
    /\ calls < MaxCalls
    /\ calls' = calls + 1
    /\ op'    = [op EXCEPT ![p] = o]
    /\ id'    = [id EXCEPT ![p] = i]
    /\ title' = [title EXCEPT ![p] = ttl]
    /\ pc'    = [pc EXCEPT ![p] = "lock"]

todos_call(p) ==
    /\ Enter(p, "todos", NoId, NoTitle)
    /\ UNCHANGED <<store, lock, locals, issued, ghost>>

todo_call(p) ==
    /\ \E i \in Ids : Enter(p, "todo", i, NoTitle)
    /\ UNCHANGED <<store, lock, locals, issued, ghost>>

toggle_todo_call(p) ==
    /\ \E i \in Ids : Enter(p, "toggle_todo", i, NoTitle)
    /\ UNCHANGED <<store, lock, locals, issued, ghost>>

delete_todo_call(p) ==
    /\ \E i \in Ids : Enter(p, "delete_todo", i, NoTitle)
    /\ UNCHANGED <<store, lock, locals, issued, ghost>>

\* create_todo builds its local `todo` before it touches the store
create_todo_call(p) ==
    \E ttl \in Titles, u \in NewV4 :
        /\ Enter(p, "create_todo", NoId, ttl)
        /\ todo'   = [todo EXCEPT ![p] = NewTodo(u, ttl)]
        /\ issued' = issued \cup {u}
        /\ UNCHANGED <<store, lock, orig_len, val, ret, ghost>>

\* ------------------------------------------------------ context.store.lock()
lock_acquire(p) ==
    /\ pc[p] = "lock"
    /\ CanLock
    /\ lock' = p
    /\ snap' = store
    /\ pc'   = [pc EXCEPT ![p] = FirstStep(op[p])]
    /\ UNCHANGED <<store, op, id, title, locals, issued, calls,
                   prev, stored, created, deleted, toggles, ncreate, ndelete,
                   deltrue, order, seqstore>>

\* ------------------------------------------------------ critical sections
unch_crit == <<lock, op, id, title, issued, calls, ghost>>

\* todos: .clone()
todos_clone(p) ==
    /\ pc[p] = "todos_clone"
    /\ val' = [val EXCEPT ![p] = List(CloneVec(store))]
    /\ pc'  = [pc EXCEPT ![p] = "unlock"]
    /\ UNCHANGED <<store, todo, orig_len, ret, unch_crit>>

\* todo: .iter().find(|t| t.id == id).cloned()
todo_find(p) ==
    /\ pc[p] = "todo_find"
    /\ val' = [val EXCEPT ![p] = Find(store, id[p])]
    /\ pc'  = [pc EXCEPT ![p] = "unlock"]
    /\ UNCHANGED <<store, todo, orig_len, ret, unch_crit>>

\* create_todo: .push(todo.clone())
create_todo_push(p) ==
    /\ pc[p] = "create_push"
    /\ store' = Push(store, CloneTodo(todo[p]))
    /\ stored' = stored \cup {todo[p].id}
    /\ order' = Append(order, todo[p].id)
    /\ pc'  = [pc EXCEPT ![p] = "unlock"]
    /\ UNCHANGED <<lock, op, id, title, issued, calls, locals,
                   snap, prev, created, deleted, toggles, ncreate, ndelete,
                   deltrue, seqstore>>

\* toggle_todo: the if-let: flip the first match and return a clone of it,
\* or fall through to Ok(None)
toggle_todo_find(p) ==
    /\ pc[p] = "toggle_find"
    /\ store' = ToggleVec(store, id[p])
    /\ val' = [val EXCEPT ![p] = Ok(Find(store', id[p]))]
    /\ toggles' = IF FindIndex(store, id[p]) = 0 THEN toggles
                   ELSE [toggles EXCEPT ![id[p]] = @ + 1]
    /\ pc'  = [pc EXCEPT ![p] = "unlock"]
    /\ UNCHANGED <<lock, op, id, title, issued, calls, todo, orig_len, ret,
                   snap, prev, stored, created, deleted, ncreate, ndelete, deltrue,
                   order, seqstore>>

\* delete_todo: let orig_len = store.len();
delete_todo_len(p) ==
    /\ pc[p] = "delete_len"
    /\ orig_len' = [orig_len EXCEPT ![p] = Len(store)]
    /\ pc'  = [pc EXCEPT ![p] = "delete_retain"]
    /\ UNCHANGED <<store, todo, val, ret, unch_crit>>

\* delete_todo: store.retain(|t| t.id != id);
delete_todo_retain(p) ==
    /\ pc[p] = "delete_retain"
    /\ store' = Retain(store, id[p])
    /\ pc'  = [pc EXCEPT ![p] = "delete_cmp"]
    /\ UNCHANGED <<locals, unch_crit>>

\* delete_todo: Ok(store.len() != orig_len)
delete_todo_cmp(p) ==
    /\ pc[p] = "delete_cmp"
    /\ val' = [val EXCEPT ![p] = Ok(LenChanged(store, orig_len[p]))]
    /\ pc'  = [pc EXCEPT ![p] = "unlock"]
    /\ UNCHANGED <<store, todo, orig_len, ret, unch_crit>>

\* ------------------------------------------------------ drop(MutexGuard)
\* variant: the guard is leaked (mem::forget), the mutex stays locked
lock_release_Leak(p) ==
    /\ pc[p] = "unlock"
    /\ lock' = lock
    /\ pc' = [pc EXCEPT ![p] = IF op[p] = "create_todo" THEN "create_ok"
                                                        ELSE "done"]
    /\ ret' = IF op[p] = "create_todo" THEN ret ELSE [ret EXCEPT ![p] = val[p]]
    /\ UNCHANGED <<store, op, id, title, todo, orig_len, val, issued, calls,
                   ghost>>

\* the guard goes out of scope; every resolver but create_todo returns here
lock_release(p) ==
    /\ pc[p] = "unlock"
    /\ lock' = NoProc
    /\ prev' = <<[op |-> op[p], id |-> id[p], title |-> title[p],
                  val |-> IF op[p] = "create_todo" THEN Ok(todo[p])
                                                   ELSE val[p],
                  before |-> snap,
                  waiting |-> {q \in Procs : pc[q] = "lock"}]>>
    /\ IF op[p] = "create_todo"
       THEN /\ pc' = [pc EXCEPT ![p] = "create_ok"]
            /\ UNCHANGED ret
       ELSE /\ pc' = [pc EXCEPT ![p] = "done"]
            /\ ret' = [ret EXCEPT ![p] = val[p]]
    /\ IF op[p] = "delete_todo"
       THEN /\ deltrue' = IF val[p].v THEN [deltrue EXCEPT ![id[p]] = @ + 1]
                                      ELSE deltrue
            /\ deleted' = IF val[p].v THEN deleted \cup {id[p]} ELSE deleted
            /\ ndelete' = IF val[p].v THEN ndelete + 1 ELSE ndelete
       ELSE UNCHANGED <<deltrue, deleted, ndelete>>
    /\ seqstore' = SeqApply(op[p], id[p], todo[p], seqstore).store
    /\ UNCHANGED <<store, op, id, title, todo, orig_len, val, issued, calls,
                   snap, stored, created, toggles, ncreate, order>>

\* variant: the task is read back from the store after the push, in a
\* second critical section, instead of returning the local `todo`
create_todo_ok_Reread(p) ==
    /\ pc[p] = "create_ok"
    /\ lock = NoProc
    /\ ret' = [ret EXCEPT ![p] =
                 Ok(IF Find(store, todo[p].id).some
                    THEN Find(store, todo[p].id).v ELSE todo[p])]
    /\ ncreate' = ncreate + 1
    /\ created' = created \cup {todo[p].id}
    /\ pc'  = [pc EXCEPT ![p] = "done"]
    /\ UNCHANGED <<store, lock, op, id, title, todo, orig_len, val, issued,
                   calls, snap, prev, stored, deleted, toggles, ndelete,
                   deltrue, order, seqstore>>

\* create_todo: Ok(todo)
create_todo_ok(p) ==
    /\ pc[p] = "create_ok"
    /\ ret' = [ret EXCEPT ![p] = Ok(todo[p])]
    /\ ncreate' = ncreate + 1
    /\ created' = created \cup {todo[p].id}
    /\ pc'  = [pc EXCEPT ![p] = "done"]
    /\ UNCHANGED <<store, lock, op, id, title, todo, orig_len, val, issued,
                   calls, snap, prev, stored, deleted, toggles, ndelete,
                   deltrue, order, seqstore>>

\* the executor takes the value; the handler is free for the next call
respond(p) ==
    /\ pc[p] = "done"
    /\ pc'       = [pc EXCEPT ![p] = "idle"]
    /\ op'       = [op EXCEPT ![p] = "none"]
    /\ id'       = [id EXCEPT ![p] = NoId]
    /\ title'    = [title EXCEPT ![p] = NoTitle]
    /\ todo'     = [todo EXCEPT ![p] = NoTodo]
    /\ orig_len' = [orig_len EXCEPT ![p] = 0]
    /\ val'      = [val EXCEPT ![p] = NoVal]
    /\ ret'      = [ret EXCEPT ![p] = NoVal]
    /\ UNCHANGED <<store, lock, issued, calls, ghost>>

Next ==
    \E p \in Procs :
        \/ todos_call(p)
        \/ todo_call(p)
        \/ create_todo_call(p)
        \/ toggle_todo_call(p)
        \/ delete_todo_call(p)
        \/ lock_acquire(p)
        \/ todos_clone(p)
        \/ todo_find(p)
        \/ create_todo_push(p)
        \/ toggle_todo_find(p)
        \/ delete_todo_len(p)
        \/ delete_todo_retain(p)
        \/ delete_todo_cmp(p)
        \/ lock_release(p)
        \/ create_todo_ok(p)
        \/ respond(p)

Spec == Init /\ [][Next]_vars

\* ----------------------------------------------------------- scheduling
\* the steps of handler p that wait for nothing: a handler runs on a worker
\* thread, so a step that can be taken is taken
Run(p) ==
    \/ todos_clone(p)
    \/ todo_find(p)
    \/ create_todo_push(p)
    \/ toggle_todo_find(p)
    \/ delete_todo_len(p)
    \/ delete_todo_retain(p)
    \/ delete_todo_cmp(p)
    \/ lock_release(p)
    \/ create_todo_ok(p)
    \/ respond(p)

\* parking_lot's Mutex is eventually fair: a handler blocked in lock() gets
\* the mutex if it is released again and again.  Clients need not call.
\* (the behaviours checked for progress start at most LiveCalls calls)
NextLive == Next /\ calls' <= LiveCalls

FairSpec ==
    /\ Init
    /\ [][NextLive]_vars
    /\ \A p \in Procs : WF_vars(Run(p)) /\ SF_vars(lock_acquire(p))

\* =========================================================== properties
\* ids of the tasks in a Vec
IdsOf(s) == {s[k].id : k \in 1..Len(s)}

\* no resolver call is in progress
Quiescent == \A p \in Procs : pc[p] \in {"idle", "done"}

\* handler p has finished the body of resolver o and still holds the guard:
\* `snap` is the store the call found, `store` the store it leaves
Finished(p, o) == pc[p] = "unlock" /\ op[p] = o

\* the critical section before the current one was resolver o
PrevWas(o) == Len(prev) = 1 /\ prev[1].op = o

\* ---------------------------------------------------------------- C1
\* C1: whenever all calls have completed, the store holds exactly the tasks
\* that were created (the seed and those create_todo returned) and not
\* deleted (delete_todo returned true), each once, and each task is
\* completed iff an odd number of toggle_todo calls found it.
C1_FinalStore ==
    Quiescent =>
        /\ IdsOf(store) = created \ deleted
        /\ \A j, k \in 1..Len(store) : store[j].id = store[k].id => j = k
        /\ \A k \in 1..Len(store) :
              store[k].completed = (toggles[store[k].id] % 2 = 1)

\* a create, a toggle and a delete have all taken effect; the created task
\* survives toggled, the seed is gone
C1_Witness ==
    /\ Quiescent
    /\ calls = MaxCalls
    /\ ncreate >= 1
    /\ ndelete >= 1
    /\ \E k \in 1..Len(store) : toggles[store[k].id] = 1 /\ store[k].completed

\* ---------------------------------------------------------------- C2
\* C2: at most one handler is inside a critical section, it is the holder
\* of the lock, and while it holds the lock the store is the store it found
\* when it locked, changed by its own steps only.
C2_MutualExclusion ==
    /\ \A p, q \in Procs : pc[p] \in Holding /\ pc[q] \in Holding => p = q
    /\ \A p \in Procs : pc[p] \in Holding <=> lock = p
    /\ \A p \in Procs :
          /\ pc[p] \in {"todos_clone", "todo_find", "create_push",
                        "toggle_find", "delete_len", "delete_retain"}
                => store = snap
          /\ pc[p] = "delete_cmp" => store = Retain(snap, id[p])
          /\ Finished(p, "todos") \/ Finished(p, "todo") => store = snap
          /\ Finished(p, "delete_todo") => store = Retain(snap, id[p])
          /\ Finished(p, "toggle_todo") => store = ToggleVec(snap, id[p])
          /\ Finished(p, "create_todo") => store = Push(snap, todo[p])

\* one handler is in the middle of delete_todo while the other waits for
\* the lock with a mutation of its own
C2_Witness ==
    \E p, q \in Procs :
        /\ pc[p] = "delete_cmp"
        /\ store # snap
        /\ pc[q] = "lock"
        /\ op[q] = "create_todo"

\* ---------------------------------------------------------------- C3
\* C3: no two tasks in the store share an id, and the task create_todo is
\* about to push has an id no task ever stored had.
C3_UniqueIds ==
    /\ \A j, k \in 1..Len(store) : store[j].id = store[k].id => j = k
    /\ \A p \in Procs : pc[p] = "create_push" => todo[p].id \notin stored
    /\ IdsOf(store) \subseteq stored

\* a second create_todo pushes while the store already holds two tasks
C3_Witness ==
    /\ Len(store) = 3
    /\ \E p \in Procs : Finished(p, "create_todo")

\* ---------------------------------------------------------------- C4
\* C4: delete_todo(id) returns true iff a task with that id was stored and
\* no earlier delete_todo(id) returned true; so it returns true at most
\* once per id, and false ever after.
C4_DeleteOnce ==
    /\ \A i \in Ids : deltrue[i] <= 1
    /\ \A p \in Procs :
          Finished(p, "delete_todo") =>
              val[p] = Ok(id[p] \in stored /\ deltrue[id[p]] = 0)

\* a second delete_todo of an id already deleted, with a create_todo
\* in between, answers false
C4_Witness ==
    \E p \in Procs :
        /\ Finished(p, "delete_todo")
        /\ deltrue[id[p]] = 1
        /\ val[p] = Ok(FALSE)
        /\ PrevWas("create_todo")

\* ---------------------------------------------------------------- C5
\* C5 as stated: at a quiescent point the length of the todos() result is
\* (successful creates) - (successful deletes).
C5_LengthAsStated ==
    Quiescent => Len(CloneVec(store)) = ncreate - ndelete

\* C5 amended: at a quiescent point the length of the todos() result is
\* 1 (the task main() seeds) + (successful creates) - (successful deletes).
C5_LengthWithSeed ==
    Quiescent => Len(CloneVec(store)) = 1 + ncreate - ndelete

\* quiescent after a successful create and a successful delete
C5_Witness ==
    /\ Quiescent
    /\ ncreate >= 1
    /\ ndelete >= 1

\* ---------------------------------------------------------------- C6
\* C6: a todo(id) that runs right after a create_todo (no other critical
\* section in between), with the id of the created task, returns that
\* task: same id, the title passed to create_todo, completed = false.
C6_CreateThenTodo ==
    \A p \in Procs :
        /\ Finished(p, "todo")
        /\ PrevWas("create_todo")
        /\ id[p] = prev[1].val.v.id
        => /\ val[p] = Some(prev[1].val.v)
           /\ val[p].v.id = id[p]
           /\ val[p].v.title = prev[1].title
           /\ val[p].v.completed = FALSE

\* todo(id) found the task the preceding create_todo("Eggs") pushed
C6_Witness ==
    \E p \in Procs :
        /\ Finished(p, "todo")
        /\ PrevWas("create_todo")
        /\ id[p] = prev[1].val.v.id
        /\ val[p].some
        /\ val[p].v.title = "Eggs"

\* ---------------------------------------------------------------- C7
\* C7: a toggle_todo that finds its task always changes completed (and so
\* the store); when the critical section right before it was a toggle_todo
\* of the same existing id, it returns the task with completed as it was
\* before the first of the two, and the store is back to what it was then.
C7_ToggleTwice ==
    \A p \in Procs :
        Finished(p, "toggle_todo") /\ id[p] \in IdsOf(snap) =>
            /\ val[p].ok
            /\ val[p].v.some
            /\ val[p].v.v.completed # Find(snap, id[p]).v.completed
            /\ store # snap
            /\ ( /\ PrevWas("toggle_todo")
                 /\ prev[1].id = id[p]
                 /\ id[p] \in IdsOf(prev[1].before) )
               => /\ val[p].v.v.completed
                        = Find(prev[1].before, id[p]).v.completed
                  /\ store = prev[1].before

\* the second of two successive toggles of the same task has run
C7_Witness ==
    \E p \in Procs :
        /\ Finished(p, "toggle_todo")
        /\ PrevWas("toggle_todo")
        /\ prev[1].id = id[p]
        /\ id[p] \in IdsOf(prev[1].before)
        /\ val[p].v.some

\* ---------------------------------------------------------------- C8
\* C8: on an id no task has, todo returns None, toggle_todo returns
\* Ok(None), delete_todo returns Ok(false), and the store is left as it
\* was found; every value a mutation hands back is an Ok.
C8_NotFound ==
    \A p \in Procs :
        /\ Finished(p, "todo") /\ id[p] \notin IdsOf(snap)
              => val[p] = None /\ store = snap
        /\ Finished(p, "toggle_todo") /\ id[p] \notin IdsOf(snap)
              => val[p] = Ok(None) /\ store = snap
        /\ Finished(p, "delete_todo") /\ id[p] \notin IdsOf(snap)
              => val[p] = Ok(FALSE) /\ store = snap
        /\ pc[p] = "done" /\ op[p] \in {"toggle_todo", "delete_todo"}
              => ret[p] = val[p] /\ ret[p].ok
        /\ pc[p] = "done" /\ op[p] = "todo" => ret[p] = val[p]

\* a delete_todo of a missing id right after a toggle_todo that found
\* nothing
C8_Witness ==
    \E p \in Procs :
        /\ Finished(p, "delete_todo")
        /\ id[p] \notin IdsOf(snap)
        /\ snap # <<>>
        /\ PrevWas("toggle_todo")
        /\ prev[1].val = Ok(None)

\* ---------------------------------------------------------------- C9
\* C9: an id for which delete_todo returned true is in no later store:
\* todo and toggle_todo on it find nothing, todos does not list it, and
\* create_todo never brings it back.
C9_Gone ==
    \A i \in deleted :
        /\ i \notin IdsOf(store)
        /\ Find(store, i) = None
        /\ ToggleVec(store, i) = store
        /\ \A p \in Procs :
              /\ Finished(p, "todo") /\ id[p] = i => val[p] = None
              /\ Finished(p, "toggle_todo") /\ id[p] = i => val[p] = Ok(None)
              /\ Finished(p, "todos") => i \notin IdsOf(val[p].list)
              /\ pc[p] \in {"lock", "create_push"} /\ op[p] = "create_todo"
                    => todo[p].id # i

\* the seed was deleted, a create_todo then filled the empty store, and a
\* toggle_todo of the seed's id finds nothing
C9_Witness ==
    \E p \in Procs :
        /\ Finished(p, "toggle_todo")
        /\ id[p] \in deleted
        /\ PrevWas("create_todo")
        /\ prev[1].before = <<>>

\* ---------------------------------------------------------------- C10
\* C10: create_todo appends exactly one task, with the title it was given
\* and completed = false, after the tasks already there, and returns
\* Ok(a copy of that task), for every title.
C10_CreateSucceeds ==
    \A p \in Procs :
        /\ Finished(p, "create_todo") =>
              /\ Len(store) = Len(snap) + 1
              /\ SubSeq(store, 1, Len(snap)) = snap
              /\ store[Len(store)] = todo[p]
              /\ store[Len(store)].title = title[p]
              /\ store[Len(store)].completed = FALSE
        /\ pc[p] = "done" /\ op[p] = "create_todo" =>
              /\ ret[p].ok
              /\ ret[p].v = Todo(todo[p].id, title[p], FALSE)
              /\ ret[p].v.id \in stored

\* create_todo("") appended a task while a task titled "" was already there
C10_Witness ==
    \E p \in Procs :
        /\ Finished(p, "create_todo")
        /\ title[p] = ""
        /\ \E k \in 1..Len(snap) : snap[k].title = ""

\* ---------------------------------------------------------------- C11
\* the ids of a Vec, in its order
IdSeq(s) == [k \in 1..Len(s) |-> s[k].id]

\* position of id i in the creation order
Born(i) == CHOOSE k \in 1..Len(order) : order[k] = i

\* C11: the store, and so what todos returns, lists the live tasks in the
\* order they were created: create_todo puts the new task after all the
\* others, toggle_todo keeps every position, delete_todo keeps the relative
\* order of what remains.
C11_InsertionOrder ==
    /\ \A j, k \in 1..Len(store) :
          j < k => Born(store[j].id) < Born(store[k].id)
    /\ \A p \in Procs :
          /\ Finished(p, "todos") => IdSeq(val[p].list) = IdSeq(store)
          /\ Finished(p, "create_todo") =>
                IdSeq(store) = IdSeq(snap) \o <<todo[p].id>>
          /\ Finished(p, "toggle_todo") => IdSeq(store) = IdSeq(snap)
          /\ Finished(p, "delete_todo") =>
                IdSeq(store) = SelectSeq(IdSeq(snap), LAMBDA i : i # id[p])

\* delete_todo removed the oldest of three tasks; the two created later
\* remain
C11_Witness ==
    \E p \in Procs :
        /\ Finished(p, "delete_todo")
        /\ Len(snap) = 3
        /\ Len(store) = 2
        /\ snap[1].id = id[p]

\* ---------------------------------------------------------------- C12
\* some handler can take a step
CanStep == ENABLED (\E p \in Procs : lock_acquire(p) \/ Run(p))

\* C12: under fair scheduling every started call gets the lock, finishes
\* and gives the lock back; nobody keeps the lock for ever, and as long as
\* a call is in progress some handler can step (no deadlock).
C12_NoBlocking ==
    /\ \A p \in Procs : (pc[p] = "lock") ~> (lock = p)
    /\ \A p \in Procs : (lock = p) ~> (lock # p)
    /\ \A p \in Procs : (pc[p] # "idle") ~> (pc[p] = "done")
    /\ []((\E p \in Procs : pc[p] # "idle") => CanStep)

\* a handler that was blocked in lock() when the other one left its
\* critical section has since got the mutex and run its body
C12_Witness ==
    \E p \in Procs :
        /\ Finished(p, "delete_todo")
        /\ Len(prev) = 1
        /\ p \in prev[1].waiting
        /\ prev[1].op = "create_todo"

\* ---------------------------------------------------------------- C13
\* the calls of the scenario, issued one after the other by one client:
\* create_todo("Eggs"), todos, toggle_todo(seed id), delete_todo(X), todo(X)
Script == <<"create_todo", "todos", "toggle_todo", "delete_todo", "todo">>

\* the client sends the next call of the script once the previous one was
\* answered; X is the id of the task create_todo returned
ScenarioCall(p) ==
    /\ \A q \in Procs : pc[q] = "idle"
    /\ calls < Len(Script)
    /\ LET o == Script[calls + 1] IN
        /\ calls' = calls + 1
        /\ op'    = [op EXCEPT ![p] = o]
        /\ pc'    = [pc EXCEPT ![p] = "lock"]
        /\ id'    = [id EXCEPT ![p] =
                        CASE o = "toggle_todo"             -> order[1]
                          [] o \in {"delete_todo", "todo"} -> order[2]
                          [] OTHER                         -> NoId]
        /\ title' = [title EXCEPT ![p] =
                        IF o = "create_todo" THEN "Eggs" ELSE NoTitle]
        /\ \/ /\ o = "create_todo"
              /\ \E u \in NewV4 :
                    /\ todo'   = [todo EXCEPT ![p] = NewTodo(u, "Eggs")]
                    /\ issued' = issued \cup {u}
           \/ /\ o # "create_todo"
              /\ UNCHANGED <<todo, issued>>
    /\ UNCHANGED <<store, lock, orig_len, val, ret, ghost>>

ScenarioNext ==
    \E p \in Procs :
        \/ ScenarioCall(p)
        \/ lock_acquire(p)
        \/ todos_clone(p)
        \/ todo_find(p)
        \/ create_todo_push(p)
        \/ toggle_todo_find(p)
        \/ delete_todo_len(p)
        \/ delete_todo_retain(p)
        \/ delete_todo_cmp(p)
        \/ lock_release(p)
        \/ create_todo_ok(p)
        \/ respond(p)

ScenarioSpec == Init /\ [][ScenarioNext]_vars

\* C13: from the initial store (just the seed "Buy milk", not completed):
\* create_todo("Eggs") returns a task with a new id X, that title and
\* completed = false; todos then returns 2 tasks; toggle_todo(seed id)
\* returns the seed with completed = true; delete_todo(X) returns true;
\* todo(X) then returns None.
C13_Scenario ==
    /\ calls = 0 =>
          /\ Len(store) = 1
          /\ store[1].title = "Buy milk"
          /\ store[1].completed = FALSE
    /\ \A p \in Procs :
          pc[p] = "done" =>
            /\ calls = 1 => /\ ret[p] = Ok(Todo(order[2], "Eggs", FALSE))
                            /\ order[2] # order[1]
            /\ calls = 2 => Len(ret[p].list) = 2
            /\ calls = 3 => ret[p] = Ok(Some(Todo(order[1], "Buy milk", TRUE)))
            /\ calls = 4 => ret[p] = Ok(TRUE)
            /\ calls = 5 => ret[p] = None

\* the last call of the scenario, todo(X), has answered
C13_Witness ==
    /\ calls = Len(Script)
    /\ \E p \in Procs : pc[p] = "done" /\ op[p] = "todo" /\ id[p] = order[2]
    /\ Len(store) = 1
    /\ store[1].completed

\* ---------------------------------------------------------------- C14
\* what a toggle_todo that found its task leaves: same length, the task
\* with the given id flipped, every other task as it was, and the value
\* returned is a copy of the task as updated
ToggleFrame ==
    \A p \in Procs :
        Finished(p, "toggle_todo") /\ id[p] \in IdsOf(snap) =>
            /\ Len(store) = Len(snap)
            /\ \A k \in 1..Len(snap) :
                  /\ store[k].id = snap[k].id
                  /\ store[k].title = snap[k].title
                  /\ store[k].completed =
                        IF snap[k].id = id[p] THEN ~snap[k].completed
                                              ELSE snap[k].completed
            /\ \E k \in 1..Len(store) :
                  store[k].id = id[p] /\ val[p] = Ok(Some(store[k]))

\* one step: a task that stays in the store keeps its id and title, and
\* its completed flag changes only in the toggle step of a toggle_todo
\* called with its id
TaskFrame ==
    /\ Len(store') >= Len(store) =>
          \A k \in 1..Len(store) : store'[k].id = store[k].id
    /\ \A j \in 1..Len(store), k \in 1..Len(store') :
          store[j].id = store'[k].id =>
              /\ store'[k].title = store[j].title
              /\ store'[k].completed # store[j].completed =>
                    \E p \in Procs : /\ pc[p] = "toggle_find"
                                     /\ pc'[p] = "unlock"
                                     /\ id[p] = store[j].id

\* C14: id and title of a stored task never change, completed changes
\* only by a toggle_todo on the task's own id, and that toggle flips just
\* this task, returns the updated copy and leaves the rest, the length
\* and the order alone.
C14_Frame == []ToggleFrame /\ [][TaskFrame]_vars

\* toggle_todo flipped the second of two tasks and left the first alone
C14_Witness ==
    \E p \in Procs :
        /\ Finished(p, "toggle_todo")
        /\ Len(snap) = 2
        /\ snap[2].id = id[p]
        /\ store[2].completed # snap[2].completed
        /\ store[1] = snap[1]

\* ---------------------------------------------------------------- C15
Reads == {"todos", "todo"}

\* what a read has computed when it is about to drop the guard: the store
\* is the one it found, and the value is taken from that one store
ReadState ==
    \A p \in Procs :
        /\ Finished(p, "todos") => store = snap /\ val[p] = List(store)
        /\ Finished(p, "todo") =>
              /\ store = snap
              /\ val[p] = IF id[p] \in IdsOf(store)
                          THEN Some(CHOOSE t \in {store[k] : k \in 1..Len(store)} :
                                           t.id = id[p])
                          ELSE None

\* one step: no step of a read changes the store; the value computed is
\* the value returned; a value already returned is not altered by what
\* happens to the store afterwards
ReadStable ==
    \A p \in Procs :
        op[p] \in Reads =>
            /\ pc'[p] # pc[p] => store' = store
            /\ pc[p] = "unlock" /\ pc'[p] = "done" => ret'[p] = val[p]
            /\ pc[p] = "done" /\ pc'[p] = "done" => ret'[p] = ret[p]

\* C15: todos and todo never change the store; what they return is a copy
\* of one store state, the one present while they held the lock, and a
\* later mutation does not change the value they returned.
C15_Snapshot == []ReadState /\ [][ReadStable]_vars

\* todos has returned two tasks and the store has changed since
C15_Witness ==
    \E p \in Procs :
        /\ pc[p] = "done"
        /\ op[p] = "todos"
        /\ Len(ret[p].list) = 2
        /\ ret[p].list # store

\* ---------------------------------------------------------------- C16
\* the value a call in progress is going to return
Answer(p) == IF op[p] = "create_todo" THEN Ok(todo[p]) ELSE val[p]

\* C16: the calls take effect one at a time in the order in which they
\* drop the guard (each between its own start and its own return):
\* seqstore is the Vec obtained by running the resolvers alone, one after
\* the other, in that order.  The real store is seqstore whenever the lock
\* is free, and every call leaves the store and returns the value that
\* the resolver run alone on seqstore leaves and returns.
C16_Linearizable ==
    /\ lock = NoProc => store = seqstore
    /\ \A p \in Procs :
          /\ pc[p] = "unlock" =>
                /\ store = SeqApply(op[p], id[p], todo[p], seqstore).store
                /\ Answer(p) = SeqApply(op[p], id[p], todo[p], seqstore).val
          /\ pc[p] = "done" => ret[p] = Answer(p)

\* two overlapping calls: a todo that was blocked in lock() while a
\* delete_todo of the same id ran has computed its answer
C16_Witness ==
    \E p \in Procs :
        /\ Finished(p, "todo")
        /\ Len(prev) = 1
        /\ p \in prev[1].waiting
        /\ prev[1].op = "delete_todo"
        /\ prev[1].id = id[p]
        /\ prev[1].val = Ok(TRUE)

\* ---------------------------------------------------------------- C17
\* handler p has computed the answer of a delete_todo(i)
Deleting(p, i) ==
    /\ op[p] = "delete_todo"
    /\ id[p] = i
    /\ pc[p] \in {"unlock", "done"}

\* C17: of the delete_todo calls in progress on one id at most one answers
\* true; when a delete_todo was blocked in lock() while another
\* delete_todo of the same, existing id ran, the first answers true, the
\* blocked one false, and the store has lost exactly one task.
C17_ConcurrentDelete ==
    /\ \A p, q \in Procs, i \in Ids :
          p # q /\ Deleting(p, i) /\ Deleting(q, i)
              => ~(val[p] = Ok(TRUE) /\ val[q] = Ok(TRUE))
    /\ \A q \in Procs :
          /\ Finished(q, "delete_todo")
          /\ PrevWas("delete_todo")
          /\ prev[1].id = id[q]
          /\ q \in prev[1].waiting
          /\ id[q] \in IdsOf(prev[1].before)
          => /\ prev[1].val = Ok(TRUE)
             /\ val[q] = Ok(FALSE)
             /\ Len(store) = Len(prev[1].before) - 1
             /\ id[q] \notin IdsOf(store)

\* two overlapping delete_todo calls on the seed: the first answered true,
\* the one that waited answers false
C17_Witness ==
    \E p, q \in Procs :
        /\ p # q
        /\ pc[p] = "done" /\ op[p] = "delete_todo" /\ ret[p] = Ok(TRUE)
        /\ Finished(q, "delete_todo")
        /\ id[q] = id[p]
        /\ Len(prev) = 1
        /\ q \in prev[1].waiting
        /\ val[q] = Ok(FALSE)

\* ---------------------------------------------------------------- C18
\* create_todo when Uuid::new_v4() is only random: the code does not look
\* whether the value is already the id of a task, so any id can come out
create_todo_call_collide(p) ==
    \E ttl \in Titles, u \in Ids :
        /\ Enter(p, "create_todo", NoId, ttl)
        /\ todo'   = [todo EXCEPT ![p] = NewTodo(u, ttl)]
        /\ issued' = issued \cup {u}
        /\ UNCHANGED <<store, lock, orig_len, val, ret, ghost>>

CollideNext ==
    \E p \in Procs :
        \/ todos_call(p)
        \/ todo_call(p)
        \/ create_todo_call_collide(p)
        \/ toggle_todo_call(p)
        \/ delete_todo_call(p)
        \/ lock_acquire(p)
        \/ todos_clone(p)
        \/ todo_find(p)
        \/ create_todo_push(p)
        \/ toggle_todo_find(p)
        \/ delete_todo_len(p)
        \/ delete_todo_retain(p)
        \/ delete_todo_cmp(p)
        \/ lock_release(p)
        \/ create_todo_ok(p)
        \/ respond(p)

\* the store may then hold several tasks with one id
CollideSpec == Init /\ [][CollideNext]_vars

\* positions of the Vec s whose task does not have id i
Others(s, i) == {k \in 1..Len(s) : s[k].id # i}

\* C18: delete_todo(id) leaves no task with that id, however many there
\* were, and leaves every other task, unchanged and in the same order; it
\* answers true iff the length changed, i.e. iff some task had the id.
C18_DeleteFrame ==
    \A p \in Procs :
        Finished(p, "delete_todo") =>
            /\ \A k \in 1..Len(store) : store[k].id # id[p]
            /\ Len(store) = Cardinality(Others(snap, id[p]))
            /\ \A k \in Others(snap, id[p]) :
                  store[Cardinality({j \in Others(snap, id[p]) : j <= k})]
                      = snap[k]
            /\ val[p] = Ok(Len(store) # Len(snap))
            /\ val[p].v = (\E k \in 1..Len(snap) : snap[k].id = id[p])

\* delete_todo removed two tasks that had the same id and kept the third
C18_Witness ==
    \E p \in Procs :
        /\ Finished(p, "delete_todo")
        /\ Len(snap) = 3
        /\ Len(store) = 1
        /\ val[p] = Ok(TRUE)

\* ---------------------------------------------------------------- C19
\* C19: create_todo has built its task (given title, completed = false)
\* before it takes the lock and holds the lock for the push only.  Until
\* the push the new id is in no store, and every todo or toggle_todo on
\* it answers absent; right after the push the task is in the store.  The
\* task create_todo returns is the one it built: completed = false,
\* whatever happened to the stored copy in the meantime.
C19_CreateWindow ==
    \A p \in Procs :
        op[p] = "create_todo" =>
            /\ todo[p] = Todo(todo[p].id, title[p], FALSE)
            /\ pc[p] = "lock" => lock # p
            /\ pc[p] \in {"create_ok", "done"} => lock # p
            /\ pc[p] \in {"lock", "create_push"} =>
                  /\ todo[p].id \notin IdsOf(store)
                  /\ \A q \in Procs :
                        id[q] = todo[p].id =>
                          /\ Finished(q, "todo") => val[q] = None
                          /\ Finished(q, "toggle_todo") => val[q] = Ok(None)
                          /\ pc[q] = "done" /\ op[q] = "todo"
                                => ret[q] = None
                          /\ pc[q] = "done" /\ op[q] = "toggle_todo"
                                => ret[q] = Ok(None)
            /\ pc[p] = "create_push" => store = snap
            /\ Finished(p, "create_todo") =>
                  /\ todo[p].id \in IdsOf(store)
                  /\ Len(store) = Len(snap) + 1
            /\ pc[p] = "done" => ret[p] = Ok(Todo(todo[p].id, title[p], FALSE))

\* create_todo has pushed but not yet returned, and a toggle_todo has
\* already flipped the stored copy
C19_Witness ==
    \E p \in Procs :
        /\ pc[p] = "create_ok"
        /\ PrevWas("toggle_todo")
        /\ prev[1].id = todo[p].id
        /\ \E k \in 1..Len(store) :
              store[k].id = todo[p].id /\ store[k].completed
====
